---- MODULE Spec2Model ----
(***************************************************************************)
(* Verification model of fancy-garbling:                                   *)
(*   - the Informer cost-accounting backend (src/src/informer.rs), run     *)
(*     sequentially (Spec) and from several threads (SpecConc);            *)
(*   - the binary bundle gadgets (src/src/fancy/binary.rs) evaluated on    *)
(*     the plaintext backend (SpecBin).                                    *)
(***************************************************************************)
EXTENDS Bags, FiniteSets, Integers, Sequences, TLC

VARIABLES informer, calls, lastCall, ret, pc, cur, tmp, mutex, gadget, dinn

vars == <<informer, calls, lastCall, ret, pc, cur, tmp, mutex, gadget, dinn>>

(***************************************************************************)
(* Bounds and input domains                                                *)
(***************************************************************************)
\* number of Informer calls issued in one sequential run
MaxCalls == 3

\* wire moduli used as operands (spec data model: p >= 2)
Moduli == {5, 7}

\* values passed to constant(); 5 is out of range for modulus 5
ConstVals == {1, 5}

\* scalars passed to cmul()
Scalars == {3}

\* truth tables passed to proj(): identity on Z5, identity on Z7,
\* and a table of length 5 with one large entry
TruthTables == { <<0, 1, 2, 3, 4>>, <<0, 1, 2, 3, 4, 5, 6>>, <<0, 0, 0, 0, 6>> }

(***************************************************************************)
(* Informer: state and results                                             *)
(***************************************************************************)
Informer_new ==
    [ garbler_input_moduli   |-> <<>>,
      evaluator_input_moduli |-> <<>>,
      constants              |-> {},
      outputs                |-> <<>>,
      nadds                  |-> 0,
      nsubs                  |-> 0,
      ncmuls                 |-> 0,
      nmuls                  |-> 0,
      nprojs                 |-> 0,
      nciphertexts           |-> 0 ]

\* what a call hands back to its caller
InformerVal(m) == [kind |-> "wire",   modulus |-> m, bits |-> 0]
Unit           == [kind |-> "unit",   modulus |-> 0, bits |-> 0]
Panic          == [kind |-> "panic",  modulus |-> 0, bits |-> 0]
Report(b)      == [kind |-> "report", modulus |-> 0, bits |-> b]
NoRet          == [kind |-> "none",   modulus |-> 0, bits |-> 0]

RECURSIVE SeqSum(_)
SeqSum(s) == IF s = <<>> THEN 0 ELSE Head(s) + SeqSum(Tail(s))

num_garbler_inputs(inf)   == Len(inf.garbler_input_moduli)
num_evaluator_inputs(inf) == Len(inf.evaluator_input_moduli)
num_consts(inf)           == Cardinality(inf.constants)
num_outputs(inf)          == Len(inf.outputs)
num_output_ciphertexts_len(inf) == Len(inf.outputs)
num_output_ciphertexts(inf) == SeqSum(inf.outputs)
num_adds(inf)             == inf.nadds
num_subs(inf)             == inf.nsubs
num_cmuls(inf)            == inf.ncmuls
num_muls(inf)             == inf.nmuls
num_projs(inf)            == inf.nprojs
num_ciphertexts(inf)      == inf.nciphertexts

\* the "total comms cost" of print_info, in bits (before the kb/mb scaling)
comms_bits(inf) ==
      num_garbler_inputs(inf) * 128
    + num_evaluator_inputs(inf) * 256
    + num_consts(inf) * 128
    + num_ciphertexts(inf) * 128
    + num_output_ciphertexts(inf) * 128

print_info(inf) == [inf |-> inf, ret |-> Report(comms_bits(inf))]

(***************************************************************************)
(* Informer: the Fancy primitives                                          *)
(***************************************************************************)
Informer_garbler_input(inf, modulus) ==
    [ inf |-> [inf EXCEPT !.garbler_input_moduli = Append(@, modulus)],
      ret |-> InformerVal(modulus) ]

Informer_evaluator_input(inf, modulus) ==
    [ inf |-> [inf EXCEPT !.evaluator_input_moduli = Append(@, modulus)],
      ret |-> InformerVal(modulus) ]

Informer_constant(inf, val, modulus) ==
    [ inf |-> [inf EXCEPT !.constants = @ \cup {<<val, modulus>>}],
      ret |-> InformerVal(modulus) ]

Informer_add(inf, x, y) ==
    IF x # y
    THEN [inf |-> inf, ret |-> Panic]
    ELSE [inf |-> [inf EXCEPT !.nadds = @ + 1], ret |-> InformerVal(x)]

Informer_sub(inf, x, y) ==
    IF x # y
    THEN [inf |-> inf, ret |-> Panic]
    ELSE [inf |-> [inf EXCEPT !.nsubs = @ + 1], ret |-> InformerVal(x)]

Informer_cmul(inf, x, c) ==
    [inf |-> [inf EXCEPT !.ncmuls = @ + 1], ret |-> InformerVal(x)]

\* a variant that counts the call once more when it swaps its arguments
Informer_mul_swap_counts(inf, x, y) ==
    LET hi == IF x < y THEN y ELSE x
        lo == IF x < y THEN x ELSE y
        n  == IF x < y THEN 2 ELSE 1
    IN [ inf |-> [inf EXCEPT !.nmuls = @ + n,
                             !.nciphertexts =
                                 @ + hi + lo - 2 + (IF hi # lo THEN 1 ELSE 0)],
         ret |-> InformerVal(hi) ]

RECURSIVE Informer_mul(_, _, _)
Informer_mul(inf, x, y) ==
    IF x < y
    THEN Informer_mul(inf, y, x)
    ELSE LET i1 == [inf EXCEPT !.nmuls = @ + 1]
             i2 == [i1  EXCEPT !.nciphertexts = @ + x + y - 2]
             i3 == IF x # y THEN [i2 EXCEPT !.nciphertexts = @ + 1] ELSE i2
         IN [inf |-> i3, ret |-> InformerVal(x)]

\* a variant that charges one ciphertext per table entry
Informer_proj_full_table(inf, x, modulus, tt) ==
    IF Len(tt) # x
    THEN [inf |-> inf, ret |-> Panic]
    ELSE IF ~(\A i \in 1..Len(tt) : tt[i] < modulus)
    THEN [inf |-> inf, ret |-> Panic]
    ELSE [ inf |-> [inf EXCEPT !.nprojs = @ + 1, !.nciphertexts = @ + x],
           ret |-> InformerVal(modulus) ]

Informer_proj(inf, x, modulus, tt) ==
    IF Len(tt) # x
    THEN [inf |-> inf, ret |-> Panic]
    ELSE IF ~(\A i \in 1..Len(tt) : tt[i] < modulus)
    THEN [inf |-> inf, ret |-> Panic]
    ELSE [ inf |-> [inf EXCEPT !.nprojs = @ + 1, !.nciphertexts = @ + x - 1],
           ret |-> InformerVal(modulus) ]

Informer_output(inf, x) ==
    [inf |-> [inf EXCEPT !.outputs = Append(@, x)], ret |-> Unit]

(***************************************************************************)
(* Sequential use of one Informer                                          *)
(***************************************************************************)
\* record of one issued call; ok tells whether it returned normally
Call(op, a, b, tt, r) ==
    [op |-> op, a |-> a, b |-> b, tt |-> tt, ok |-> (r.kind # "panic")]

NoCall == [op |-> "none", a |-> 0, b |-> 0, tt |-> <<>>, ok |-> TRUE]

ConcIdle ==
    /\ pc = <<>>
    /\ cur = <<>>
    /\ tmp = <<>>
    /\ mutex = <<>>

Init ==
    /\ informer = Informer_new
    /\ calls = EmptyBag
    /\ lastCall = NoCall
    /\ ret = NoRet
    /\ ConcIdle
    /\ gadget = <<>>
    /\ dinn = <<>>

CanCall == BagCardinality(calls) < MaxCalls

Commit(r, op, a, b, tt) ==
    /\ CanCall
    /\ informer' = r.inf
    /\ ret' = r.ret
    /\ lastCall' = Call(op, a, b, tt, r.ret)
    /\ calls' = calls (+) SetToBag({Call(op, a, b, tt, r.ret)})
    /\ UNCHANGED <<pc, cur, tmp, mutex, gadget, dinn>>

GarblerInput ==
    \E m \in Moduli :
        Commit(Informer_garbler_input(informer, m), "garbler_input", m, 0, <<>>)

EvaluatorInput ==
    \E m \in Moduli :
        Commit(Informer_evaluator_input(informer, m), "evaluator_input", m, 0, <<>>)

Constant ==
    \E v \in ConstVals, m \in Moduli :
        Commit(Informer_constant(informer, v, m), "constant", v, m, <<>>)

Add ==
    \E x \in Moduli, y \in Moduli :
        Commit(Informer_add(informer, x, y), "add", x, y, <<>>)

Sub ==
    \E x \in Moduli, y \in Moduli :
        Commit(Informer_sub(informer, x, y), "sub", x, y, <<>>)

Cmul ==
    \E x \in Moduli, c \in Scalars :
        Commit(Informer_cmul(informer, x, c), "cmul", x, c, <<>>)

Mul ==
    \E x \in Moduli, y \in Moduli :
        Commit(Informer_mul(informer, x, y), "mul", x, y, <<>>)

Proj ==
    \E x \in Moduli, m \in Moduli, tt \in TruthTables :
        Commit(Informer_proj(informer, x, m, tt), "proj", x, m, tt)

Output ==
    \E x \in Moduli :
        Commit(Informer_output(informer, x), "output", x, 0, <<>>)

PrintInfo ==
    Commit(print_info(informer), "print_info", 0, 0, <<>>)

Next ==
    \/ GarblerInput
    \/ EvaluatorInput
    \/ Constant
    \/ Add
    \/ Sub
    \/ Cmul
    \/ Mul
    \/ Proj
    \/ Output
    \/ PrintInfo

Spec == Init /\ [][Next]_vars

(***************************************************************************)
(* One Informer shared by several threads (SpecConc).                      *)
(* Every statement of the form `*self.f.lock().unwrap() op= v` is a        *)
(* critical section on the mutex of field f: the thread takes the mutex    *)
(* and loads the field (LockLoad), then stores the new value and drops the *)
(* guard (StoreUnlock).  A thread blocks in lock() while the mutex is held.*)
(***************************************************************************)
\* threads sharing the Informer
NThreads == 2

\* calls issued by all threads together
MaxConcCalls == 3

Threads == 1..NThreads

Fields == DOMAIN Informer_new

\* calls the threads choose from (all with valid operands)
ConcCalls ==
    { Call("garbler_input", 5, 0, <<>>, Unit),
      Call("evaluator_input", 7, 0, <<>>, Unit),
      Call("constant", 1, 5, <<>>, Unit),
      Call("add", 5, 5, <<>>, Unit),
      Call("sub", 7, 7, <<>>, Unit),
      Call("cmul", 5, 3, <<>>, Unit),
      Call("mul", 5, 7, <<>>, Unit),
      Call("mul", 5, 5, <<>>, Unit),
      Call("proj", 7, 5, <<0, 1, 2, 3, 4, 5, 6>>, Unit),
      Call("output", 7, 0, <<>>, Unit) }

\* one locked update of a field: f += v, f.push(v) or f.insert(v)
Stmt(f, u, v) == [field |-> f, upd |-> u, arg |-> v]

Update(stmt, old) ==
    CASE stmt.upd = "add"    -> old + stmt.arg
      [] stmt.upd = "push"   -> Append(old, stmt.arg)
      [] stmt.upd = "insert" -> old \cup {stmt.arg}

garbler_input_stmts(modulus) == << Stmt("garbler_input_moduli", "push", modulus) >>

evaluator_input_stmts(modulus) == << Stmt("evaluator_input_moduli", "push", modulus) >>

constant_stmts(val, modulus) == << Stmt("constants", "insert", <<val, modulus>>) >>

add_stmts(x, y) == IF x # y THEN <<>> ELSE << Stmt("nadds", "add", 1) >>

sub_stmts(x, y) == IF x # y THEN <<>> ELSE << Stmt("nsubs", "add", 1) >>

cmul_stmts(x, c) == << Stmt("ncmuls", "add", 1) >>

RECURSIVE mul_stmts(_, _)
mul_stmts(x, y) ==
    IF x < y
    THEN mul_stmts(y, x)
    ELSE << Stmt("nmuls", "add", 1), Stmt("nciphertexts", "add", x + y - 2) >>
         \o (IF x # y THEN << Stmt("nciphertexts", "add", 1) >> ELSE <<>>)

proj_stmts(x, modulus, tt) ==
    IF Len(tt) # x \/ ~(\A i \in 1..Len(tt) : tt[i] < modulus)
    THEN <<>>
    ELSE << Stmt("nprojs", "add", 1), Stmt("nciphertexts", "add", x - 1) >>

output_stmts(x) == << Stmt("outputs", "push", x) >>

\* the locked statements a call executes, in program order
Stmts(c) ==
    CASE c.op = "garbler_input"   -> garbler_input_stmts(c.a)
      [] c.op = "evaluator_input" -> evaluator_input_stmts(c.a)
      [] c.op = "constant"        -> constant_stmts(c.a, c.b)
      [] c.op = "add"             -> add_stmts(c.a, c.b)
      [] c.op = "sub"             -> sub_stmts(c.a, c.b)
      [] c.op = "cmul"            -> cmul_stmts(c.a, c.b)
      [] c.op = "mul"             -> mul_stmts(c.a, c.b)
      [] c.op = "proj"            -> proj_stmts(c.a, c.b, c.tt)
      [] c.op = "output"          -> output_stmts(c.a)

\* a mutex that never makes a thread wait
MutexFree_unguarded(f) == TRUE

\* Mutex::lock returns only when no thread holds the mutex
MutexFree(f) == mutex[f] = {}

NoFrame == [call |-> NoCall, todo |-> <<>>]

\* calls entered so far, returned or still running
NumIssued == BagCardinality(calls) + Cardinality({t \in Threads : pc[t] # "idle"})

InitConc ==
    /\ informer = Informer_new
    /\ calls = EmptyBag
    /\ lastCall = NoCall
    /\ ret = NoRet
    /\ pc = [t \in Threads |-> "idle"]
    /\ cur = [t \in Threads |-> NoFrame]
    /\ tmp = [t \in Threads |-> <<>>]
    /\ mutex = [f \in Fields |-> {}]
    /\ gadget = <<>>
    /\ dinn = <<>>

\* thread t enters one of the Fancy methods
Issue(t) ==
    /\ pc[t] = "idle"
    /\ NumIssued < MaxConcCalls
    /\ \E c \in ConcCalls :
          cur' = [cur EXCEPT ![t] = [call |-> c, todo |-> Stmts(c)]]
    /\ pc' = [pc EXCEPT ![t] = "lock"]
    /\ UNCHANGED <<informer, calls, lastCall, ret, tmp, mutex, gadget, dinn>>

\* self.f.lock().unwrap(), then read *guard
LockLoad(t) ==
    /\ pc[t] = "lock"
    /\ cur[t].todo # <<>>
    /\ LET f == Head(cur[t].todo).field
       IN /\ MutexFree(f)
          /\ mutex' = [mutex EXCEPT ![f] = @ \cup {t}]
          /\ tmp' = [tmp EXCEPT ![t] = informer[f]]
    /\ pc' = [pc EXCEPT ![t] = "store"]
    /\ UNCHANGED <<informer, calls, lastCall, ret, cur, gadget, dinn>>

\* write *guard, then drop the guard at the end of the statement
StoreUnlock(t) ==
    /\ pc[t] = "store"
    /\ LET stmt == Head(cur[t].todo)
       IN /\ informer' = [informer EXCEPT ![stmt.field] = Update(stmt, tmp[t])]
          /\ mutex' = [mutex EXCEPT ![stmt.field] = @ \ {t}]
    /\ tmp' = [tmp EXCEPT ![t] = <<>>]
    /\ cur' = [cur EXCEPT ![t].todo = Tail(@)]
    /\ pc' = [pc EXCEPT ![t] = "lock"]
    /\ UNCHANGED <<calls, lastCall, ret, gadget, dinn>>

\* the method returns to its caller
Return(t) ==
    /\ pc[t] = "lock"
    /\ cur[t].todo = <<>>
    /\ calls' = calls (+) SetToBag({cur[t].call})
    /\ cur' = [cur EXCEPT ![t].call = NoCall]
    /\ pc' = [pc EXCEPT ![t] = "idle"]
    /\ UNCHANGED <<informer, lastCall, ret, tmp, mutex, gadget, dinn>>

NextConc ==
    \E t \in Threads :
        \/ Issue(t)
        \/ LockLoad(t)
        \/ StoreUnlock(t)
        \/ Return(t)

SpecConc == InitConc /\ [][NextConc]_vars

(***************************************************************************)
(* Binary gadgets on the plaintext backend (SpecBin).                      *)
(* A wire of the plaintext backend is a value with its modulus; a bundle   *)
(* is a sequence of wires, least significant first.                        *)
(***************************************************************************)
\* widest binary bundle given to a gadget
MaxWidth == 4

\* lengths of the lists of bundles given to bin_max
ArgCounts == 0..3

Wire(v, q) == [val |-> v, modulus |-> q]

\* Option::None for an absent carry-in wire
None == [val |-> 0, modulus |-> 0]

Ok(v)  == [ok |-> TRUE,  val |-> v,    err |-> "none"]
Err(e) == [ok |-> FALSE, val |-> <<>>, err |-> e]

RECURSIVE Pow2(_)
Pow2(n) == IF n = 0 THEN 1 ELSE 2 * Pow2(n - 1)

\* plaintext primitives: modular arithmetic on the wire values
Dummy_constant(val, modulus) == Wire(val, modulus)

Dummy_add(x, y) == Wire((x.val + y.val) % x.modulus, x.modulus)

Dummy_sub(x, y) == Wire((x.modulus + x.val - y.val) % x.modulus, x.modulus)

Dummy_mul(x, y) ==
    LET q == IF x.modulus < y.modulus THEN y.modulus ELSE x.modulus
    IN Wire((x.val * y.val) % q, q)

\* derived one-line gadgets on mod-2 wires
xor(x, y) == Dummy_add(x, y)

and(x, y) == Dummy_mul(x, y)

negate(x) == Dummy_add(x, Dummy_constant(1, 2))

or(x, y) == Dummy_sub(Dummy_add(x, y), Dummy_mul(x, y))

RECURSIVE or_many(_)
or_many(ws) ==
    IF Len(ws) = 1 THEN ws[1]
    ELSE or(or_many(SubSeq(ws, 1, Len(ws) - 1)), ws[Len(ws)])

RECURSIVE add_many(_)
add_many(ws) ==
    IF Len(ws) = 1 THEN ws[1]
    ELSE Dummy_add(add_many(SubSeq(ws, 1, Len(ws) - 1)), ws[Len(ws)])

\* half adder without carry-in, full adder with one
adder(x, y, carry_in) ==
    IF carry_in = None
    THEN [z |-> xor(x, y), c |-> and(x, y)]
    ELSE [z |-> xor(xor(x, y), carry_in),
          c |-> xor(and(x, y), and(carry_in, xor(x, y)))]

u128_to_bits(val, nbits) == [i \in 1..nbits |-> (val \div Pow2(i - 1)) % 2]

constant_bundle(xs, ps) == [i \in 1..Len(xs) |-> Dummy_constant(xs[i], ps[i])]

moduli(b) == [i \in 1..Len(b) |-> b[i].modulus]

bin_constant_bundle(val, nbits) ==
    Ok(constant_bundle(u128_to_bits(val, nbits), [i \in 1..nbits |-> 2]))

\* the `for i in from..to` loop of the two adders; i counts from 0
RECURSIVE adder_loop(_, _, _, _, _, _)
adder_loop(xwires, ywires, i, to, c, bs) ==
    IF i >= to THEN [bs |-> bs, c |-> c]
    ELSE LET res == adder(xwires[i + 1], ywires[i + 1], c)
         IN adder_loop(xwires, ywires, i + 1, to, res.c, Append(bs, res.z))

\* a variant that returns the carry of the lowest adder
bin_addition_first_carry(xs, ys) ==
    IF moduli(xs) # moduli(ys) THEN Err("UnequalModuli")
    ELSE IF Len(xs) = 0 THEN Err("panic")
    ELSE LET first == adder(xs[1], ys[1], None)
             rest  == adder_loop(xs, ys, 1, Len(xs), first.c, <<first.z>>)
         IN Ok([sum |-> rest.bs, carry |-> first.c])

bin_addition(xs, ys) ==
    IF moduli(xs) # moduli(ys) THEN Err("UnequalModuli")
    ELSE IF Len(xs) = 0 THEN Err("panic")
    ELSE LET first == adder(xs[1], ys[1], None)
             rest  == adder_loop(xs, ys, 1, Len(xs), first.c, <<first.z>>)
         IN Ok([sum |-> rest.bs, carry |-> rest.c])

bin_addition_no_carry(xs, ys) ==
    IF moduli(xs) # moduli(ys) THEN Err("UnequalModuli")
    ELSE IF Len(xs) = 0 THEN Err("panic")
    ELSE LET first == adder(xs[1], ys[1], None)
             rest  == adder_loop(xs, ys, 1, Len(xs) - 1, first.c, <<first.z>>)
             z     == add_many(<<xs[Len(xs)], ys[Len(ys)], rest.c>>)
         IN Ok(Append(rest.bs, z))

\* a variant that only flips the bits
bin_twos_complement_not_only(xs) ==
    Ok([i \in 1..Len(xs) |-> negate(xs[i])])

bin_twos_complement(xs) ==
    LET not_xs == [i \in 1..Len(xs) |-> negate(xs[i])]
        one    == bin_constant_bundle(1, Len(xs))
    IN IF ~one.ok THEN one
       ELSE bin_addition_no_carry(not_xs, one.val)

bin_subtraction(xs, ys) ==
    LET neg_ys == bin_twos_complement(ys)
    IN IF ~neg_ys.ok THEN neg_ys
       ELSE bin_addition(xs, neg_ys.val)

bin_lt(x, y) ==
    LET sub == bin_subtraction(x, y)
    IN IF ~sub.ok THEN sub
       ELSE LET lhs          == sub.val.carry
                y_contains_1 == or_many(y)
                y_eq_0       == negate(y_contains_1)
                x_contains_1 == or_many(x)
                rhs          == and(y_eq_0, x_contains_1)
                geq          == or(lhs, rhs)
            IN Ok(negate(geq))

bin_geq(x, y) ==
    LET z == bin_lt(x, y)
    IN IF ~z.ok THEN z ELSE Ok(negate(z.val))

\* the closure of bin_max: blend y into the running maximum x
bin_max_step(x, y) ==
    LET pos == bin_lt(x, y)
    IN IF ~pos.ok THEN pos
       ELSE LET neg == negate(pos.val)
                k   == IF Len(x) < Len(y) THEN Len(x) ELSE Len(y)
            IN Ok([i \in 1..k |->
                      Dummy_add(Dummy_mul(x[i], neg), Dummy_mul(y[i], pos.val))])

\* xs.iter().skip(1).fold(Ok(xs[0].clone()), ...), from index i (from 0) on
RECURSIVE bin_max_fold(_, _, _)
bin_max_fold(acc, xs, i) ==
    IF i >= Len(xs) THEN acc
    ELSE IF ~acc.ok THEN bin_max_fold(acc, xs, i + 1)
    ELSE bin_max_fold(bin_max_step(acc.val, xs[i + 1]), xs, i + 1)

\* FancyError::InvalidArgNum { got, needed }
InvalidArgNum(got, needed) ==
    [ok |-> FALSE, val |-> <<>>, err |-> "InvalidArgNum",
     got |-> got, needed |-> needed]

\* a variant that accepts a single bundle
bin_max_needs_one(xs) ==
    IF Len(xs) < 1 THEN InvalidArgNum(Len(xs), 1)
    ELSE bin_max_fold(Ok(xs[1]), xs, 1)

bin_max(xs) ==
    IF Len(xs) < 2 THEN InvalidArgNum(Len(xs), 2)
    ELSE bin_max_fold(Ok(xs[1]), xs, 1)

\* the methods the closure of bin_max calls on the backend, in order
bin_max_step_calls(x, y) ==
    LET pos == bin_lt(x, y)
        k   == IF Len(x) < Len(y) THEN Len(x) ELSE Len(y)
        RECURSIVE blend(_)
        blend(i) == IF i = 0 THEN <<>> ELSE blend(i - 1) \o <<"mul", "mul", "add">>
    IN IF ~pos.ok THEN <<"bin_lt">>
       ELSE <<"bin_lt", "negate">> \o blend(k)

RECURSIVE bin_max_fold_calls(_, _, _)
bin_max_fold_calls(acc, xs, i) ==
    IF i >= Len(xs) \/ ~acc.ok THEN <<>>
    ELSE bin_max_step_calls(acc.val, xs[i + 1])
         \o bin_max_fold_calls(bin_max_step(acc.val, xs[i + 1]), xs, i + 1)

\* everything bin_max asks of the backend during one call
bin_max_calls(xs) ==
    IF Len(xs) < 2 THEN <<>>
    ELSE bin_max_fold_calls(Ok(xs[1]), xs, 1)

\* wire-wise addition and multiplication of two bundles of the same length
add_bundles(x, y) ==
    IF Len(x) # Len(y) THEN Err("UnequalModuli")
    ELSE Ok([i \in 1..Len(x) |-> Dummy_add(x[i], y[i])])

mul_bundles(x, y) ==
    IF Len(x) # Len(y) THEN Err("UnequalModuli")
    ELSE Ok([i \in 1..Len(x) |-> Dummy_mul(x[i], y[i])])

bin_xor(x, y) == add_bundles(x, y)

bin_and(x, y) == mul_bundles(x, y)

\* x.wires().iter().zip(y.wires().iter()) stops at the shorter bundle
bin_or(x, y) ==
    LET k == IF Len(x) < Len(y) THEN Len(x) ELSE Len(y)
    IN Ok([i \in 1..k |-> or(x[i], y[i])])

\* `width - c` on usize: with overflow checks (debug builds) the subtraction
\* panics when c > width; without them (release builds) it wraps to a value
\* larger than any bundle, so take(keep) takes whatever skip(c) left
bin_lshr_constant(xs, c, overflow_checks) ==
    LET width == Len(xs)
        zero  == Dummy_constant(0, 2)
        zeros == [i \in 1..c |-> zero]
        kept  == IF c > width THEN <<>>
                 ELSE SubSeq(xs, c + 1, c + (width - c))
    IN IF c > width /\ overflow_checks THEN Err("panic")
       ELSE Ok(kept \o zeros)

\* the binary bundle of width n that encodes v
BinaryBundle(v, n) == constant_bundle(u128_to_bits(v, n), [i \in 1..n |-> 2])

Widths == 1..MaxWidth

\* constant shift amounts, up to one more than the widest bundle
Shifts == 0..(MaxWidth + 1)

Values(n) == 0..(Pow2(n) - 1)

NoGadget == [op |-> "none", args |-> <<>>, out |-> Ok(<<>>)]

InformerIdle ==
    /\ informer = Informer_new
    /\ calls = EmptyBag
    /\ lastCall = NoCall
    /\ ret = NoRet

InitBin ==
    /\ InformerIdle
    /\ ConcIdle
    /\ gadget = NoGadget
    /\ dinn = <<>>

\* The plaintext backend carries nothing from one gadget call to the next,
\* so a behaviour is one call on a fresh backend.
BinAddition ==
    /\ gadget = NoGadget
    /\ \E n \in Widths, m \in Widths :
          \E x \in Values(n), y \in Values(m) :
              LET xs == BinaryBundle(x, n)
                  ys == BinaryBundle(y, m)
              IN gadget' = [op |-> "bin_addition", args |-> <<xs, ys>>,
                            out |-> bin_addition(xs, ys)]
    /\ UNCHANGED <<informer, calls, lastCall, ret, pc, cur, tmp, mutex, dinn>>

BinSubtraction ==
    /\ gadget = NoGadget
    /\ \E n \in Widths :
          \E x \in Values(n), y \in Values(n) :
              LET xs == BinaryBundle(x, n)
                  ys == BinaryBundle(y, n)
              IN gadget' = [op |-> "bin_subtraction", args |-> <<xs, ys>>,
                            out |-> bin_subtraction(xs, ys)]
    /\ UNCHANGED <<informer, calls, lastCall, ret, pc, cur, tmp, mutex, dinn>>

BinLt ==
    /\ gadget = NoGadget
    /\ \E n \in Widths :
          \E x \in Values(n), y \in Values(n) :
              LET xs == BinaryBundle(x, n)
                  ys == BinaryBundle(y, n)
              IN gadget' = [op |-> "bin_lt", args |-> <<xs, ys>>,
                            out |-> bin_lt(xs, ys)]
    /\ UNCHANGED <<informer, calls, lastCall, ret, pc, cur, tmp, mutex, dinn>>

BinMax ==
    /\ gadget = NoGadget
    /\ \E n \in Widths, k \in ArgCounts :
          \E vs \in [1..k -> Values(n)] :
              LET xs == [i \in 1..k |-> BinaryBundle(vs[i], n)]
              IN gadget' = [op |-> "bin_max", args |-> xs, out |-> bin_max(xs),
                            issued |-> bin_max_calls(xs)]
    /\ UNCHANGED <<informer, calls, lastCall, ret, pc, cur, tmp, mutex, dinn>>

BinXor ==
    /\ gadget = NoGadget
    /\ \E n \in Widths, m \in Widths :
          \E x \in Values(n), y \in Values(m) :
              LET xs == BinaryBundle(x, n)
                  ys == BinaryBundle(y, m)
              IN gadget' = [op |-> "bin_xor", args |-> <<xs, ys>>,
                            out |-> bin_xor(xs, ys)]
    /\ UNCHANGED <<informer, calls, lastCall, ret, pc, cur, tmp, mutex, dinn>>

BinAnd ==
    /\ gadget = NoGadget
    /\ \E n \in Widths, m \in Widths :
          \E x \in Values(n), y \in Values(m) :
              LET xs == BinaryBundle(x, n)
                  ys == BinaryBundle(y, m)
              IN gadget' = [op |-> "bin_and", args |-> <<xs, ys>>,
                            out |-> bin_and(xs, ys)]
    /\ UNCHANGED <<informer, calls, lastCall, ret, pc, cur, tmp, mutex, dinn>>

BinOr ==
    /\ gadget = NoGadget
    /\ \E n \in Widths, m \in Widths :
          \E x \in Values(n), y \in Values(m) :
              LET xs == BinaryBundle(x, n)
                  ys == BinaryBundle(y, m)
              IN gadget' = [op |-> "bin_or", args |-> <<xs, ys>>,
                            out |-> bin_or(xs, ys)]
    /\ UNCHANGED <<informer, calls, lastCall, ret, pc, cur, tmp, mutex, dinn>>

BinGeq ==
    /\ gadget = NoGadget
    /\ \E n \in Widths :
          \E x \in Values(n), y \in Values(n) :
              LET xs == BinaryBundle(x, n)
                  ys == BinaryBundle(y, n)
              IN gadget' = [op |-> "bin_geq", args |-> <<xs, ys>>,
                            out |-> bin_geq(xs, ys)]
    /\ UNCHANGED <<informer, calls, lastCall, ret, pc, cur, tmp, mutex, dinn>>

BinAdditionNoCarry ==
    /\ gadget = NoGadget
    /\ \E n \in Widths, m \in Widths :
          \E x \in Values(n), y \in Values(m) :
              LET xs == BinaryBundle(x, n)
                  ys == BinaryBundle(y, m)
              IN gadget' = [op |-> "bin_addition_no_carry", args |-> <<xs, ys>>,
                            out |-> bin_addition_no_carry(xs, ys)]
    /\ UNCHANGED <<informer, calls, lastCall, ret, pc, cur, tmp, mutex, dinn>>

BinLshrConstant ==
    /\ gadget = NoGadget
    /\ \E n \in Widths, c \in Shifts, overflow_checks \in BOOLEAN :
          \E x \in Values(n) :
              LET xs == BinaryBundle(x, n)
              IN gadget' = [op |-> "bin_lshr_constant", args |-> <<xs>>,
                            shift |-> c, overflow_checks |-> overflow_checks,
                            out |-> bin_lshr_constant(xs, c, overflow_checks)]
    /\ UNCHANGED <<informer, calls, lastCall, ret, pc, cur, tmp, mutex, dinn>>

NextBin ==
    \/ BinLshrConstant
    \/ BinGeq
    \/ BinAdditionNoCarry
    \/ BinXor
    \/ BinAnd
    \/ BinOr
    \/ BinAddition
    \/ BinSubtraction
    \/ BinLt
    \/ BinMax

SpecBin == InitBin /\ [][NextBin]_vars

(***************************************************************************)
(* src/apps/dinn.rs: the signed <-> residue conversion used for the        *)
(* network's weights, biases and outputs.                                  *)
(***************************************************************************)
MaxQ == 12

\* Rust's % on signed integers: the remainder takes the sign of the dividend.
rem(a, b) == IF a >= 0 THEN a % b ELSE -((-a) % b)

\* The sum q + x is not negative for the inputs drawn here (x >= -q), so
\* the closing `as u128` leaves the remainder as it is.
to_mod_q(q, x) == rem(q + x, q)

from_mod_q(q, x) == IF x > q \div 2 THEN (q \div 2) - x ELSE x

DinnModuli == 2..MaxQ

NoDinn == [op |-> "none", q |-> 0, x |-> 0, enc |-> 0, dec |-> 0]

InitDinn ==
    /\ InformerIdle
    /\ ConcIdle
    /\ gadget = NoGadget
    /\ dinn = NoDinn

\* let w = to_mod_q(q, x) for a signed x
ToModQ ==
    /\ dinn.op = "none"
    /\ \E q \in DinnModuli : \E x \in (-q)..(q - 1) :
          dinn' = [op |-> "to_mod_q", q |-> q, x |-> x,
                   enc |-> to_mod_q(q, x), dec |-> 0]
    /\ UNCHANGED <<informer, calls, lastCall, ret, pc, cur, tmp, mutex, gadget>>

\* from_mod_q(q, w) applied to the residue produced by to_mod_q
FromModQ ==
    /\ dinn.op = "to_mod_q"
    /\ dinn' = [dinn EXCEPT !.op = "round_trip",
                            !.dec = from_mod_q(dinn.q, dinn.enc)]
    /\ UNCHANGED <<informer, calls, lastCall, ret, pc, cur, tmp, mutex, gadget>>

\* from_mod_q(q, r) applied to a residue r of an evaluation's output
FromModQResidue ==
    /\ dinn.op = "none"
    /\ \E q \in DinnModuli : \E r \in 0..(q - 1) :
          dinn' = [op |-> "from_mod_q", q |-> q, x |-> 0,
                   enc |-> r, dec |-> from_mod_q(q, r)]
    /\ UNCHANGED <<informer, calls, lastCall, ret, pc, cur, tmp, mutex, gadget>>

NextDinn ==
    \/ ToModQ
    \/ FromModQ
    \/ FromModQResidue

SpecDinn == InitDinn /\ [][NextDinn]_vars

(***************************************************************************)
(* Properties of the sequential Informer (checked under Spec)              *)
(***************************************************************************)
IssuedCalls == BagToSet(calls)

CountOf(c) == IF c \in IssuedCalls THEN calls[c] ELSE 0

\* ciphertexts one completed call is charged, per the cost rules
CiphertextCost(c) ==
    IF ~c.ok THEN 0
    ELSE IF c.op = "proj" THEN c.a - 1
    ELSE IF c.op = "mul" THEN c.a + c.b - 2 + (IF c.a # c.b THEN 1 ELSE 0)
    ELSE 0

RECURSIVE TotalCost(_)
TotalCost(S) ==
    IF S = {} THEN 0
    ELSE LET c == CHOOSE d \in S : TRUE
         IN CountOf(c) * CiphertextCost(c) + TotalCost(S \ {c})

RECURSIVE CountIn(_, _)
CountIn(S, op) ==
    IF S = {} THEN 0
    ELSE LET c == CHOOSE d \in S : TRUE
         IN (IF c.op = op THEN CountOf(c) ELSE 0) + CountIn(S \ {c}, op)

\* how many times the operation op was called
NumCalls(op) == CountIn(IssuedCalls, op)

IsProj7(c)  == c.op = "proj" /\ c.ok /\ c.a = 7
IsMul55(c)  == c.op = "mul" /\ c.a = 5 /\ c.b = 5

ProjMulScenario ==
    /\ BagCardinality(calls) = 2
    /\ \E c \in IssuedCalls : IsProj7(c)
    /\ \E c \in IssuedCalls : IsMul55(c)

\* C1: num_ciphertexts() is the sum of (modulus(x) - 1) over the completed
\* proj calls plus (modulus(x) + modulus(y) - 2, one more when the moduli
\* differ) over the mul calls, every other operation being free; one proj on
\* a modulus-7 wire plus one mul of two modulus-5 wires gives projections 1,
\* multiplications 1, ciphertexts 14; N repetitions of one call cost N times
\* that call.
C1_CiphertextAccounting ==
    /\ num_ciphertexts(informer) = TotalCost(IssuedCalls)
    /\ ProjMulScenario =>
          /\ num_projs(informer) = 1
          /\ num_muls(informer) = 1
          /\ num_ciphertexts(informer) = 14
    /\ \A c \in IssuedCalls :
          IssuedCalls = {c} =>
              num_ciphertexts(informer) = CountOf(c) * CiphertextCost(c)

C1_Witness ==
    /\ ProjMulScenario
    /\ num_ciphertexts(informer) = 14

Max(a, b) == IF a < b THEN b ELSE a

\* C2: from every state, mul(x, y) and mul(y, x) lead to the same state and
\* the same returned wire; each adds exactly 1 to num_muls(), and the wire
\* returned has the larger of the two moduli, so num_muls() is the number of
\* mul calls made.
C2_MulSymmetric ==
    /\ \A x \in Moduli, y \in Moduli :
          LET r1 == Informer_mul(informer, x, y)
              r2 == Informer_mul(informer, y, x)
          IN /\ r1 = r2
             /\ num_muls(r1.inf) = num_muls(informer) + 1
             /\ r1.ret = InformerVal(Max(x, y))
    /\ num_muls(informer) = NumCalls("mul")
    /\ lastCall.op = "mul" => ret = InformerVal(Max(lastCall.a, lastCall.b))

C2_Witness ==
    /\ lastCall.op = "mul"
    /\ lastCall.a < lastCall.b
    /\ num_muls(informer) = 1
    /\ ret.modulus = lastCall.b

RECURSIVE OutputModuliSum(_)
OutputModuliSum(S) ==
    IF S = {} THEN 0
    ELSE LET c == CHOOSE d \in S : TRUE
         IN (IF c.op = "output" THEN CountOf(c) * c.a ELSE 0)
            + OutputModuliSum(S \ {c})

\* the distinct (value, modulus) pairs ever passed to constant()
ConstantPairs == { <<c.a, c.b>> : c \in {d \in IssuedCalls : d.op = "constant"} }

CommsBitsOfCalls ==
      128 * NumCalls("garbler_input")
    + 256 * NumCalls("evaluator_input")
    + 128 * Cardinality(ConstantPairs)
    + 128 * num_ciphertexts(informer)
    + 128 * OutputModuliSum(IssuedCalls)

\* C4: in every reachable state the total communication cost print_info
\* reports is 128 bits per garbler_input call, 256 per evaluator_input call,
\* 128 per distinct (value, modulus) pair passed to constant, 128 per
\* ciphertext and 128 per unit of modulus of every wire passed to output.
C4_CommsBits ==
    /\ comms_bits(informer) = CommsBitsOfCalls
    /\ ret.kind = "report" => ret.bits = CommsBitsOfCalls

\* a report printed after the same constant was declared twice and a wire
\* was output
C4_Witness ==
    /\ ret.kind = "report"
    /\ \E c \in IssuedCalls : c.op = "constant" /\ CountOf(c) = 2
    /\ ret.bits = 128

InvalidOperands(c) ==
    \/ c.op \in {"add", "sub"} /\ c.a # c.b
    \/ c.op = "proj" /\ ( \/ Len(c.tt) # c.a
                          \/ \E i \in 1..Len(c.tt) : c.tt[i] >= c.b )

ErrorKind(c) == IF c.op = "proj" THEN "InvalidTruthTable" ELSE "UnequalModuli"

\* C5: add/sub with unequal moduli fails with UnequalModuli and proj with a
\* table of the wrong length or with an entry >= p' fails with
\* InvalidTruthTable, and the failed call changes no counter and no
\* collection of the Informer.
C5_RejectedWithErrorKind ==
    [][ (calls' # calls /\ InvalidOperands(lastCall')) =>
            /\ ret'.kind = ErrorKind(lastCall')
            /\ informer' = informer ]_vars

\* C6: constant(v, p) with v >= p fails with InvalidInput: no wire is
\* returned and the pair (v, p) is not in the constants set.
C6_ConstantOutOfRangeRejected ==
    (lastCall.op = "constant" /\ lastCall.a >= lastCall.b) =>
        /\ ret.kind = "InvalidInput"
        /\ <<lastCall.a, lastCall.b>> \notin informer.constants

(***************************************************************************)
(* Properties of the shared Informer (checked under SpecConc)              *)
(***************************************************************************)
\* the sequential method for a recorded call
SeqApply(inf, c) ==
    CASE c.op = "garbler_input"   -> Informer_garbler_input(inf, c.a).inf
      [] c.op = "evaluator_input" -> Informer_evaluator_input(inf, c.a).inf
      [] c.op = "constant"        -> Informer_constant(inf, c.a, c.b).inf
      [] c.op = "add"             -> Informer_add(inf, c.a, c.b).inf
      [] c.op = "sub"             -> Informer_sub(inf, c.a, c.b).inf
      [] c.op = "cmul"            -> Informer_cmul(inf, c.a, c.b).inf
      [] c.op = "mul"             -> Informer_mul(inf, c.a, c.b).inf
      [] c.op = "proj"            -> Informer_proj(inf, c.a, c.b, c.tt).inf
      [] c.op = "output"          -> Informer_output(inf, c.a).inf

\* the states reached by running the calls of bag B one after the other,
\* in every possible order
RECURSIVE SeqResults(_)
SeqResults(B) ==
    IF BagToSet(B) = {} THEN {Informer_new}
    ELSE UNION { { SeqApply(inf, c) : inf \in SeqResults(B (-) SetToBag({c})) }
                 : c \in BagToSet(B) }

\* every counter and the constants set, as the accessors report them
Totals(inf) ==
    [ garbler_inputs     |-> num_garbler_inputs(inf),
      evaluator_inputs   |-> num_evaluator_inputs(inf),
      constants          |-> inf.constants,
      outputs            |-> num_outputs(inf),
      output_ciphertexts |-> num_output_ciphertexts(inf),
      adds               |-> num_adds(inf),
      subs               |-> num_subs(inf),
      cmuls              |-> num_cmuls(inf),
      muls               |-> num_muls(inf),
      projs              |-> num_projs(inf),
      ciphertexts        |-> num_ciphertexts(inf) ]

AllReturned == \A t \in Threads : pc[t] = "idle"

RECURSIVE Unsigned(_)
Unsigned(b) ==
    IF Len(b) = 0 THEN 0
    ELSE b[1].val + 2 * Unsigned(Tail(b))

\* the two's-complement value, the last wire being the sign bit
Signed(b) ==
    IF b[Len(b)].val = 1 THEN Unsigned(b) - Pow2(Len(b)) ELSE Unsigned(b)

IsBinary(b) == \A i \in 1..Len(b) : b[i].modulus = 2 /\ b[i].val \in {0, 1}

Arg(i) == gadget.args[i]

\* C7: for bundles of the same width n >= 1 holding x and y, bin_addition
\* returns n sum wires of value (x + y) mod 2^n and the carry wire
\* floor((x + y) / 2^n).
C7_BinAddition ==
    (gadget.op = "bin_addition" /\ Len(Arg(1)) = Len(Arg(2))) =>
        LET n == Len(Arg(1))
            t == Unsigned(Arg(1)) + Unsigned(Arg(2))
        IN /\ gadget.out.ok
           /\ Len(gadget.out.val.sum) = n
           /\ IsBinary(gadget.out.val.sum)
           /\ Unsigned(gadget.out.val.sum) = t % Pow2(n)
           /\ gadget.out.val.carry = Wire(t \div Pow2(n), 2)

\* 3-bit 5 + 6: sum 3 with carry 1
C7_Witness ==
    /\ gadget.op = "bin_addition"
    /\ Len(Arg(1)) = 3 /\ Len(Arg(2)) = 3
    /\ Unsigned(Arg(1)) = 5 /\ Unsigned(Arg(2)) = 6
    /\ gadget.out.ok
    /\ Unsigned(gadget.out.val.sum) = 3
    /\ gadget.out.val.carry.val = 1

\* C8: for width n >= 2, bin_subtraction returns the bundle of
\* (x - y) mod 2^n and a flag that is 1 exactly when y # 0 and x >= y, so
\* the flag is 0 whenever y = 0.
C8_BinSubtraction ==
    (gadget.op = "bin_subtraction" /\ Len(Arg(1)) >= 2) =>
        LET n == Len(Arg(1))
            x == Unsigned(Arg(1))
            y == Unsigned(Arg(2))
        IN /\ gadget.out.ok
           /\ Len(gadget.out.val.sum) = n
           /\ Unsigned(gadget.out.val.sum) = (x - y) % Pow2(n)
           /\ gadget.out.val.carry = Wire(IF y # 0 /\ x >= y THEN 1 ELSE 0, 2)
           /\ y = 0 => gadget.out.val.carry.val = 0

\* 3-bit 5 - 0: difference 5 and flag 0 although 5 >= 0
C8_Witness ==
    /\ gadget.op = "bin_subtraction"
    /\ Len(Arg(1)) = 3
    /\ Unsigned(Arg(1)) = 5 /\ Unsigned(Arg(2)) = 0
    /\ gadget.out.ok
    /\ Unsigned(gadget.out.val.sum) = 5
    /\ gadget.out.val.carry.val = 0

\* C9: for two bundles of the same width (here n >= 2, the widths at which
\* bin_subtraction returns a flag), bin_lt(x, y) outputs 1 if and only if
\* signed(x) < signed(y) in two's complement.
C9_BinLtSigned ==
    (gadget.op = "bin_lt" /\ Len(Arg(1)) >= 2) =>
        /\ gadget.out.ok
        /\ gadget.out.val.val = 1 <=> Signed(Arg(1)) < Signed(Arg(2))

SignedValues == { Signed(gadget.args[i]) : i \in 1..Len(gadget.args) }

Is5Minus4And3 ==
    /\ Len(gadget.args) = 3
    /\ Len(Arg(1)) = 4
    /\ Signed(Arg(1)) = 5 /\ Signed(Arg(2)) = -4 /\ Signed(Arg(3)) = 3

\* C10: bin_max of two or more bundles of equal width (here n >= 2) returns
\* the bundle with the greatest two's-complement value; for the 4-bit
\* 5, -4, 3 it returns 0101.
C10_BinMaxSigned ==
    (gadget.op = "bin_max" /\ Len(gadget.args) >= 2 /\ Len(Arg(1)) >= 2) =>
        /\ gadget.out.ok
        /\ \E i \in 1..Len(gadget.args) :
              /\ gadget.out.val = Arg(i)
              /\ \A v \in SignedValues : v <= Signed(Arg(i))
        /\ Is5Minus4And3 => gadget.out.val = BinaryBundle(5, 4)

\* C11: bin_max of a list of 0 or 1 bundles fails with
\* InvalidArgNum{got: len(xs), needed: 2} and asks nothing of the backend.
C11_BinMaxTooFewArgs ==
    (gadget.op = "bin_max" /\ Len(gadget.args) < 2) =>
        /\ gadget.out = InvalidArgNum(Len(gadget.args), 2)
        /\ gadget.issued = <<>>

\* bin_max of a single bundle was rejected
C11_Witness ==
    /\ gadget.op = "bin_max"
    /\ Len(gadget.args) = 1
    /\ ~gadget.out.ok
    /\ gadget.out.err = "InvalidArgNum"
    /\ gadget.out.got = 1
    /\ gadget.out.needed = 2
    /\ gadget.issued = <<>>

\* C12: bin_xor, bin_and and bin_or called with bundles of different lengths
\* return an error and never a result bundle, in particular never a bundle
\* cut to the shorter length.
C12_UnequalLengthsRejected ==
    ( /\ gadget.op \in {"bin_xor", "bin_and", "bin_or"}
      /\ Len(Arg(1)) # Len(Arg(2)) ) => ~gadget.out.ok

\* C13: for width n >= 2 and unsigned x, y, bin_geq(x, y) outputs 1 exactly
\* when x >= y and bin_lt(x, y) outputs 1 exactly when x < y, the cases
\* y = 0 and x = y = 0 included, and bin_geq is the negation of bin_lt.
C13_UnsignedComparison ==
    (gadget.op \in {"bin_geq", "bin_lt"} /\ Len(Arg(1)) >= 2) =>
        LET x == Unsigned(Arg(1))
            y == Unsigned(Arg(2))
        IN /\ gadget.out.ok
           /\ gadget.op = "bin_geq" =>
                 /\ gadget.out.val = Wire(IF x >= y THEN 1 ELSE 0, 2)
                 /\ gadget.out.val = negate(bin_lt(Arg(1), Arg(2)).val)
           /\ gadget.op = "bin_lt" =>
                 gadget.out.val = Wire(IF x < y THEN 1 ELSE 0, 2)

\* C14: for bundles of the same width n >= 1 (n = 1 included)
\* bin_addition_no_carry returns exactly n wires, the same wires as the sum
\* of bin_addition, of value (x + y) mod 2^n; for bundles whose moduli lists
\* differ it fails with UnequalModuli.
C14_AdditionNoCarry ==
    gadget.op = "bin_addition_no_carry" =>
        IF moduli(Arg(1)) = moduli(Arg(2))
        THEN LET n == Len(Arg(1))
             IN /\ gadget.out.ok
                /\ Len(gadget.out.val) = n
                /\ gadget.out.val = bin_addition(Arg(1), Arg(2)).val.sum
                /\ Unsigned(gadget.out.val)
                      = (Unsigned(Arg(1)) + Unsigned(Arg(2))) % Pow2(n)
        ELSE gadget.out = Err("UnequalModuli")

\* C15: for a bundle x of width n and every shift c >= 0 (c = n and c > n
\* included) bin_lshr_constant(x, c) does not fail and returns exactly n
\* wires: wires c..n-1 of x followed by constant-0 wires, of value
\* floor(x / 2^c).
C15_LshrConstant ==
    gadget.op = "bin_lshr_constant" =>
        LET xs == Arg(1)
            n  == Len(xs)
            c  == gadget.shift
        IN /\ gadget.out.ok
           /\ Len(gadget.out.val) = n
           /\ \A i \in 1..n :
                 gadget.out.val[i] = IF i + c <= n THEN xs[i + c] ELSE Wire(0, 2)
           /\ Unsigned(gadget.out.val) = Unsigned(xs) \div Pow2(c)

\* C16: for a modulus q and a signed x with -q/2 <= x < q/2, to_mod_q(q, x)
\* is the residue in [0, q) congruent to x and from_mod_q(q, to_mod_q(q, x))
\* is x again; from_mod_q decodes a residue r < q/2 as r and a residue
\* r >= q/2 as r - q.
C16_ModQRoundTrip ==
    /\ (dinn.op \in {"to_mod_q", "round_trip"}
        /\ -dinn.q <= 2 * dinn.x /\ 2 * dinn.x < dinn.q)
          => /\ dinn.enc \in 0..(dinn.q - 1)
             /\ (dinn.enc - dinn.x) % dinn.q = 0
             /\ dinn.op = "round_trip" => dinn.dec = dinn.x
    /\ dinn.op = "from_mod_q"
          => dinn.dec = IF 2 * dinn.enc < dinn.q THEN dinn.enc
                        ELSE dinn.enc - dinn.q

====
